---- MODULE Spec2Model ----
(***************************************************************************)
(* b3p: laminate decomposition (build_plybook.py) and CalculiX deck        *)
(* assembly (mesh2ccx.py).                                                 *)
(*                                                                         *)
(* Numbers.  The code computes in floating point; the model computes in    *)
(* integers on lattices on which the code's arithmetic is exact:           *)
(*   - a radius is a whole number of length units, RUnit units to the      *)
(*     millimetre, so the 10 mm rounding grid of plyify is Grid units and  *)
(*     the resampling stations of ply_stack are whole numbers of units;    *)
(*   - a thickness is a whole number of thickness units;                   *)
(*   - a split fraction is a whole number of SplitDen-ths (dyadic, so the  *)
(*     float sum and the float product len(stack)*fraction are exact).     *)
(***************************************************************************)
EXTENDS Integers, Sequences, FiniteSets, TLC

VARIABLES
    call,           \* the arguments of the function call under test
    ret,            \* what the call returned: [status, value]
    blade,          \* lamplan2plies: blade["laminates"]["slabs"], keyed by position
    pc,             \* lamplan2plies: "idle" | "loop" | "done" | "aborted"
    slab_i,         \* lamplan2plies: number of slabs the loop has taken up
    material_map,   \* lamplan2plies: material name -> id
    stack,          \* lamplan2plies: the local variable `stack` (unbound at first)
    allstacks,      \* lamplan2plies: the plan entries appended so far
    exported,       \* the material map file export_matdb has written, if any
    returned,       \* lamplan2plies has returned allstacks to its caller
    wpc,            \* mesh2ccx: the statement the run is at, "idle" | ... | "done" | "aborted"
    buf,            \* mesh2ccx: the common buffer `buf`, a sequence of blocks
    loadcases,      \* mesh2ccx: the local variable `loadcases`
    decks           \* the deck files written so far, in order: [path, content]

vars ==
    <<call, ret, blade, pc, slab_i, material_map, stack, allstacks, exported, returned,
      wpc, buf, loadcases, decks>>

(***************************************************************************)
(* Bounds of the model.                                                    *)
(***************************************************************************)
\* number of resampling stations of ply_stack (the code's default is 5000)
Subdivisions == 251
\* longest r-t curve handed to plyify and coreblock directly
MaxPts == 3
\* largest thickness sample, in thickness units
MaxT == 3
\* longest stack handed to number_stack directly
MaxStack == 5
\* number of slabs of a blade
MaxSlabs == 2

\* thickness units per millimetre
TUnit == 2
\* split fractions are whole numbers of SplitDen-ths
SplitDen == 4
\* Poisson ratios are whole numbers of NuDen-ths
NuDen == 100000
\* millimetres of span per step of the slabs' relative radius
\* (tip_radius - root_radius of the blade)
SpanMm == 25
\* the value of a slab's "rscale" entry, in millimetres per step
RScaleMm == 40

\* length units per millimetre: every resampling station is a whole unit
RUnit == Subdivisions - 1
\* the rounding grid of plyify, 10 mm, in length units
Grid == 10 * RUnit

(***************************************************************************)
(* Helpers standing for Python / numpy built-ins.                          *)
(***************************************************************************)
\* `k in d`: whether the dictionary d holds key k
Has(d, k) == k \in d.has

Reverse(s) == [k \in 1..Len(s) |-> s[Len(s) + 1 - k]]

Max(a, b) == IF a >= b THEN a ELSE b

Min(a, b) == IF a <= b THEN a ELSE b

RECURSIVE SeqMax(_)
SeqMax(s) == IF Len(s) = 1 THEN s[1] ELSE Max(s[1], SeqMax(Tail(s)))

RECURSIVE SeqMin(_)
SeqMin(s) == IF Len(s) = 1 THEN s[1] ELSE Min(s[1], SeqMin(Tail(s)))

\* round(a / b) to the nearest integer, ties to the even one (b > 0):
\* the rounding of Python's round() and of numpy's round()
RoundHalfEven(a, b) ==
    LET q == a \div b
        rem == a % b
    IN  IF 2 * rem < b THEN q
        ELSE IF 2 * rem > b THEN q + 1
        ELSE IF q % 2 = 0 THEN q ELSE q + 1

\* round(x * 1e3, -1) * 1e-3: a radius rounded to the 10 mm grid
Round10(x) == RoundHalfEven(x, Grid) * Grid

(***************************************************************************)
(* plyify                                                                  *)
(***************************************************************************)
\* a mutant of OpenPlies: a ply is opened as soon as its lower face is reached
\* (>= for >)
RECURSIVE OpenPlies_inclusive(_, _, _, _)
OpenPlies_inclusive(active, ri, ti, ply_thickness) ==
    IF ti >= Len(active) * ply_thickness /\ ti > 0
    THEN OpenPlies_inclusive(Append(active, <<ri, -1>>), ri, ti, ply_thickness)
    ELSE active

\* while t[i] > len(active) * ply_thickness: active.append([r[i], -1])
RECURSIVE OpenPlies(_, _, _, _)
OpenPlies(active, ri, ti, ply_thickness) ==
    IF ti > Len(active) * ply_thickness
    THEN OpenPlies(Append(active, <<ri, -1>>), ri, ti, ply_thickness)
    ELSE active

\* a mutant of ClosePlies: the top ply is kept while the thickness is exactly
\* at its lower face (< for <=)
RECURSIVE ClosePlies_strict(_, _, _, _, _)
ClosePlies_strict(active, done, ri, ti, ply_thickness) ==
    IF ti < (Len(active) - 1) * ply_thickness
    THEN ClosePlies_strict(SubSeq(active, 1, Len(active) - 1),
                           Append(done, <<active[Len(active)][1], ri>>),
                           ri, ti, ply_thickness)
    ELSE [active |-> active, done |-> done]

\* while t[i] <= (len(active) - 1) * ply_thickness:
\*     pop = active.pop(); pop[-1] = r[i]; done.append(pop)
RECURSIVE ClosePlies(_, _, _, _, _)
ClosePlies(active, done, ri, ti, ply_thickness) ==
    IF ti <= (Len(active) - 1) * ply_thickness
    THEN ClosePlies(SubSeq(active, 1, Len(active) - 1),
                    Append(done, <<active[Len(active)][1], ri>>),
                    ri, ti, ply_thickness)
    ELSE [active |-> active, done |-> done]

\* the body of `for i in range(np)` for one sample i
ScanStep(r, t, ply_thickness, i, active, done) ==
    LET opened == OpenPlies(active, r[i], t[i], ply_thickness)
    IN  ClosePlies(opened, done, r[i], t[i], ply_thickness)

\* for i in range(np): the samples lo..hi in order, the first half before the
\* second (the halving only keeps the evaluation shallow)
RECURSIVE ScanPlies(_, _, _, _, _, _, _)
ScanPlies(r, t, ply_thickness, lo, hi, active, done) ==
    IF lo > hi THEN [active |-> active, done |-> done]
    ELSE IF lo = hi THEN ScanStep(r, t, ply_thickness, lo, active, done)
    ELSE LET mid == (lo + hi) \div 2
             first == ScanPlies(r, t, ply_thickness, lo, mid, active, done)
         IN  IF Len(first.done) >= 0
             THEN ScanPlies(r, t, ply_thickness, mid + 1, hi, first.active, first.done)
             ELSE first

\* for j in active: j[-1] = r[i]; done.append(j)
CloseAtEnd(r, active, done) ==
    done \o [j \in 1..Len(active) |-> <<active[j][1], r[Len(r)]>>]

\* a mutant of RoundPlies: only the start radius is rounded
RoundPlies_start_only(done) ==
    [k \in 1..Len(done) |-> <<Round10(done[k][1]), done[k][2]>>]

\* for i in done: i[0] = round(...); i[1] = round(...)
RoundPlies(done) ==
    [k \in 1..Len(done) |-> <<Round10(done[k][1]), Round10(done[k][2])>>]

plyify(r, t, ply_thickness, reverse) ==
    LET scan == ScanPlies(r, t, ply_thickness, 1, Len(r), <<>>, <<>>)
        done == RoundPlies(CloseAtEnd(r, scan.active, scan.done))
    IN  IF reverse THEN done ELSE Reverse(done)

(***************************************************************************)
(* ply_stack                                                               *)
(***************************************************************************)
RECURSIVE GCD(_, _)
GCD(a, b) == IF b = 0 THEN a ELSE GCD(b, a % b)

LCM(a, b) == (a \div GCD(a, b)) * b

\* the common denominator of the slopes of the curve's segments
RECURSIVE SlopeDen(_, _)
SlopeDen(r, j) ==
    IF j >= Len(r) THEN 1 ELSE LCM(r[j + 1] - r[j], SlopeDen(r, j + 1))

\* np.linspace(min(r), max(r), subdivisions); the stations are whole length
\* units when the radii are whole millimetres
Linspace(lo, hi, n) == [k \in 1..n |-> lo + (k - 1) * ((hi - lo) \div (n - 1))]

\* np.interp(x, r, t) for strictly ascending r, times den (a multiple of
\* every r[j + 1] - r[j], so the result is whole)
Interp(x, r, t, den) ==
    IF x <= r[1] THEN den * t[1]
    ELSE IF x >= r[Len(r)] THEN den * t[Len(r)]
    ELSE LET j == CHOOSE j \in 1..(Len(r) - 1) : r[j] <= x /\ x < r[j + 1]
         IN  den * t[j] + (x - r[j]) * (t[j + 1] - t[j]) * (den \div (r[j + 1] - r[j]))

\* the resampled curve of ply_stack: stations x and thicknesses y * den
Resample(r, t, subdivisions) ==
    LET den == SlopeDen(r, 1)
        x == Linspace(SeqMin(r), SeqMax(r), subdivisions)
    IN  [den |-> den, x |-> x, y |-> [k \in 1..subdivisions |-> Interp(x[k], r, t, den)]]

\* plyify compares t[i] with multiples of ply_thickness only, so the
\* interpolated thicknesses and t_ply are handed to it times the same den
ply_stack(r, t, t_ply, reverse, subdivisions, material) ==
    LET rs == Resample(r, t, subdivisions)
        st == plyify(rs.x, rs.y, t_ply * rs.den, reverse)
    IN  [k \in 1..Len(st) |-> <<material, t_ply>> \o st[k]]

(***************************************************************************)
(* coreblock                                                               *)
(***************************************************************************)
\* a mutant of BlockThickness: the first endpoint's thickness, never the mean
BlockThickness_first(tmin, tmax) == tmin

\* tt = tmin if tmin == tmax else 0.5 * (tmin + tmax)
\* (thickness samples are even numbers of thickness units, so the mean is whole)
BlockThickness(tmin, tmax) == IF tmin = tmax THEN tmin ELSE (tmin + tmax) \div 2

\* for i in range(lr - 1): ... if tt > 0: stack.append([material, tt, rmin, rmax])
RECURSIVE BlockLoop(_, _, _, _, _)
BlockLoop(r, t, material, i, blocks) ==
    IF i > Len(r) - 1 THEN blocks
    ELSE LET tt == BlockThickness(t[i], t[i + 1])
         IN  BlockLoop(r, t, material, i + 1,
                       IF tt > 0 THEN Append(blocks, <<material, tt, r[i], r[i + 1]>>)
                       ELSE blocks)

\* min(r) of an empty r raises ValueError before the loop; the resampled x, y
\* of lines 61-62 are computed and never used
coreblock(r, t, material) ==
    IF Len(r) = 0 THEN [status |-> "raise", value |-> <<>>]
    ELSE [status |-> "ok", value |-> BlockLoop(r, t, material, 1, <<>>)]

(***************************************************************************)
(* number_stack                                                            *)
(***************************************************************************)
\* range(n): empty for n <= 0
Range(n) == [k \in 1..Max(n, 0) |-> k - 1]

Some(v) == [some |-> TRUE, v |-> v]

None == [some |-> FALSE, v |-> 0]

\* a mutant of ZipLongest: zip, which stops at the shorter sequence
ZipLongest_zip(a, b) ==
    [k \in 1..Min(Len(a), Len(b)) |-> <<Some(a[k]), Some(b[k])>>]

\* itertools.zip_longest(a, b): pairs, the shorter sequence filled with None
ZipLongest(a, b) ==
    [k \in 1..Max(Len(a), Len(b)) |->
        <<IF k <= Len(a) THEN Some(a[k]) ELSE None,
          IF k <= Len(b) THEN Some(b[k]) ELSE None>>]

\* itertools.chain.from_iterable(pairs)
ChainPairs(pairs) ==
    [k \in 1..(2 * Len(pairs)) |-> pairs[(k + 1) \div 2][2 - (k % 2)]]

IsSome(x) == x.some

\* [i for i in ... if i is not None]
DropNone(s) ==
    LET kept == SelectSeq(s, IsSome)
    IN  [k \in 1..Len(kept) |-> kept[k].v]

\* ss = (len(stack) * sp).round().astype(int)
SplitCounts(n, sp) ==
    <<RoundHalfEven(n * sp[1], SplitDen), RoundHalfEven(n * sp[2], SplitDen)>>

\* lines 82-89: the two id sequences, interleaved
Interleave(n, splitstack, key, increment) ==
    LET ss == SplitCounts(n, splitstack)
        st == Range(ss[1])
        sb == Range(ss[2])
        stt == [k \in 1..Len(st) |-> key[1] + st[k] * increment[1]]
        sbt == [k \in 1..Len(sb) |-> key[2] + sb[k] * increment[2]]
    IN  DropNone(ChainPairs(ZipLongest(stt, sbt)))

\* a mutant of number_stack: the sum of the fractions is not checked
number_stack_unchecked(stk, splitstack, key, increment) ==
    [status |-> "ok", value |-> Interleave(Len(stk), splitstack, key, increment)]

\* exit(...) when sp.sum() != 1.0, else the interleaved ids
number_stack(stk, splitstack, key, increment) ==
    IF splitstack[1] + splitstack[2] # SplitDen
    THEN [status |-> "exit", value |-> <<>>]
    ELSE [status |-> "ok", value |-> Interleave(Len(stk), splitstack, key, increment)]

(***************************************************************************)
(* material_db_to_ccx                                                      *)
(***************************************************************************)
\* the clamp bounds 0.1 and 0.45 of the isotropic card
NuLo == NuDen \div 10

NuHi == (45 * NuDen) \div 100

\* D *= 1e6 and E = 1e6 * ...: the deck's pressure unit
Mega == 1000000

RECURSIVE Pow10(_)
Pow10(k) == IF k = 0 THEN 1 ELSE 10 * Pow10(k - 1)

RECURSIVE Digits(_)
Digits(v) == IF v < 10 THEN 1 ELSE 1 + Digits(v \div 10)

\* f"{v:.4g}": v to four significant digits (v >= 0)
Fmt4g(v) ==
    IF Digits(v) <= 4 THEN v
    ELSE RoundHalfEven(v, Pow10(Digits(v) - 4)) * Pow10(Digits(v) - 4)

\* a mutant of ClampNu: only the lower bound is applied
ClampNu_no_upper(nu) == Max(NuLo, nu)

\* nu = min(0.45, max(0.1, nu))
ClampNu(nu) == Min(NuHi, Max(NuLo, nu))

\* lines 73-82.  D = C makes D another name of the same array, so every
\* right-hand side reads what the lines before have written
RemapC(C) ==
    LET D1 == [C  EXCEPT ![<<0, 3>>] = C[<<0, 5>>]]
        D2 == [D1 EXCEPT ![<<0, 5>>] = D1[<<0, 3>>]]
        D3 == [D2 EXCEPT ![<<1, 3>>] = D2[<<1, 5>>]]
        D4 == [D3 EXCEPT ![<<1, 5>>] = D3[<<1, 3>>]]
        D5 == [D4 EXCEPT ![<<2, 3>>] = D4[<<2, 5>>]]
        D6 == [D5 EXCEPT ![<<2, 5>>] = D5[<<2, 3>>]]
        D7 == [D6 EXCEPT ![<<3, 3>>] = D6[<<5, 5>>]]
        D8 == [D7 EXCEPT ![<<5, 5>>] = D7[<<3, 3>>]]
    IN  [ab \in DOMAIN C |-> D8[ab] * Mega]

\* lines 83-88: the nine constants of the orthotropic card
OrthoConstants(C) ==
    LET D == RemapC(C)
    IN  <<Fmt4g(D[<<0, 0>>]), Fmt4g(D[<<0, 1>>]), Fmt4g(D[<<1, 1>>]),
          Fmt4g(D[<<0, 2>>]), Fmt4g(D[<<1, 2>>]), Fmt4g(D[<<2, 2>>]),
          Fmt4g(D[<<3, 3>>]), Fmt4g(D[<<4, 4>>]), Fmt4g(D[<<5, 5>>])>>

KeyError == [status |-> "raise", card |-> <<>>]

Card(i, props, type, values) ==
    [status |-> "ok",
     card |-> [material |-> i, name |-> props.name, type |-> type, values |-> values]]

\* lines 103-122: the isotropic card
IsoCard(i, props) ==
    IF ~(Has(props, "nu") \/ Has(props, "nu12")) THEN KeyError
    ELSE IF ~(Has(props, "tEx") \/ Has(props, "E")) THEN KeyError
    ELSE LET nu == ClampNu(IF Has(props, "nu") THEN props.nu ELSE props.nu12)
             E == Mega * (IF Has(props, "tEx") THEN props.tEx ELSE props.E)
         IN  Card(i, props, "iso", <<Fmt4g(E), Fmt4g(nu)>>)

\* lines 62-66: "vf" in p or "C" in p and not force_iso; `and` binds tighter
\* than `or`
IsOrtho(props, force_iso) ==
    Has(props, "vf") \/ (Has(props, "C") /\ ~force_iso)

\* lines 56-122: the card of one material
MaterialCard(i, props, force_iso) ==
    IF IsOrtho(props, force_iso)
    THEN IF ~Has(props, "C") THEN KeyError
         ELSE Card(i, props, "ortho", OrthoConstants(props.C))
    ELSE IF Has(props, "e11") /\ ~force_iso
    THEN Card(i, props, "engineering constants",
              [k \in 1..Len(props.e) |-> Fmt4g(props.e[k])])
    ELSE IsoCard(i, props)

\* for i in materials: if i > 1e-6: ...
RECURSIVE MaterialLoop(_, _, _, _, _, _)
MaterialLoop(materials, mm_inv, mat_db, force_iso, k, cards) ==
    IF k > Len(materials) THEN [status |-> "ok", value |-> cards]
    ELSE IF materials[k] <= 0
    THEN MaterialLoop(materials, mm_inv, mat_db, force_iso, k + 1, cards)
    ELSE IF materials[k] \notin DOMAIN mm_inv
    THEN [status |-> "raise", value |-> <<>>]
    ELSE LET c == MaterialCard(materials[k], mat_db[mm_inv[materials[k]]], force_iso)
         IN  IF c.status = "raise" THEN [status |-> "raise", value |-> <<>>]
             ELSE MaterialLoop(materials, mm_inv, mat_db, force_iso, k + 1,
                               Append(cards, c.card))

\* a mutant of material_db_to_ccx: missing files give an empty block instead
\* of ending the run
material_db_to_ccx_no_abort(materials, files, mm_inv, mat_db, force_iso) ==
    IF files # "ok" THEN [status |-> "ok", value |-> <<>>]
    ELSE MaterialLoop(materials, mm_inv, mat_db, force_iso, 1, <<>>)

\* files: "no_map" (no material map file), "no_link" (a map without "matdb"),
\* "no_db" (the linked database cannot be opened), "ok"
material_db_to_ccx(materials, files, mm_inv, mat_db, force_iso) ==
    IF files \in {"no_map", "no_link"} THEN [status |-> "exit", value |-> <<>>]
    ELSE IF files = "no_db" THEN [status |-> "raise", value |-> <<>>]
    ELSE MaterialLoop(materials, mm_inv, mat_db, force_iso, 1, <<>>)

(***************************************************************************)
(* The inputs of the direct calls.                                         *)
(***************************************************************************)
\* radii in millimetres: two ties, which round to the even grid line below
\* and above, and one that rounds up
RadiiMm == {5, 15, 26}

Radii == {m * RUnit : m \in RadiiMm}

Ascending(n) == {r \in [1..n -> Radii] : \A i \in 1..(n - 1) : r[i] <= r[i + 1]}

Thicknesses(n) == [1..n -> 0..MaxT]

PlyThicknesses == {1, 2}

NoCall == [fn |-> "none"]

NoRet == [status |-> "none", value |-> <<>>]

Unbound == [bound |-> FALSE, value |-> <<>>]

NotExported == [written |-> FALSE, map |-> <<>>]

PlannerIdle ==
    /\ blade = <<>>
    /\ pc = "idle"
    /\ slab_i = 0
    /\ material_map = <<>>
    /\ stack = Unbound
    /\ allstacks = <<>>
    /\ exported = NotExported
    /\ returned = FALSE

PlannerUnchanged ==
    UNCHANGED <<blade, pc, slab_i, material_map, stack, allstacks, exported, returned>>

\* mesh2ccx is not running
WriterIdle ==
    /\ wpc = "idle"
    /\ buf = <<>>
    /\ loadcases = <<>>
    /\ decks = <<>>

WriterUnchanged == UNCHANGED <<wpc, buf, loadcases, decks>>

InitPlyify ==
    /\ \E n \in 1..MaxPts :
          \E r \in Ascending(n), t \in Thicknesses(n),
             p \in PlyThicknesses, rev \in BOOLEAN :
              call = [fn |-> "plyify", r |-> r, t |-> t, ply_thickness |-> p,
                      reverse |-> rev]
    /\ ret = NoRet
    /\ PlannerIdle
    /\ WriterIdle

CallPlyify ==
    /\ call.fn = "plyify"
    /\ ret.status = "none"
    /\ ret' = [status |-> "ok",
               value |-> plyify(call.r, call.t, call.ply_thickness, call.reverse)]
    /\ UNCHANGED call
    /\ PlannerUnchanged
    /\ WriterUnchanged

SpecPlyify == InitPlyify /\ [][CallPlyify]_vars

\* any radii, in any order
AnyRadii(n) == [1..n -> Radii]

\* thickness samples of a block curve: even numbers of thickness units (so
\* the mean of two is whole), one below zero
BlockThicknesses(n) == [1..n -> {2 * k : k \in (-1)..2}]

\* Scenario B of the specification: r = [0, 1, 2] m, t = [0, 2, 2] mm
ScenarioB ==
    [fn |-> "coreblock", r |-> <<0, 1000 * RUnit, 2000 * RUnit>>,
     t |-> <<0, 2 * TUnit, 2 * TUnit>>, material |-> 11]

InitCoreblock ==
    /\ \/ call = ScenarioB
       \/ \E n \in 1..MaxPts :
             \E r \in AnyRadii(n), t \in BlockThicknesses(n) :
                 call = [fn |-> "coreblock", r |-> r, t |-> t, material |-> 11]
    /\ ret = NoRet
    /\ PlannerIdle
    /\ WriterIdle

CallCoreblock ==
    /\ call.fn = "coreblock"
    /\ ret.status = "none"
    /\ ret' = coreblock(call.r, call.t, call.material)
    /\ UNCHANGED call
    /\ PlannerUnchanged
    /\ WriterUnchanged

SpecCoreblock == InitCoreblock /\ [][CallCoreblock]_vars

\* a stack of n entries (number_stack reads only its length)
DummyStack(n) == [k \in 1..n |-> <<11, 1, 0, 0>>]

\* 2-fraction vectors, in SplitDen-ths, summing to 1 or not
SplitStacks == ((-1)..(SplitDen + 1)) \X ((-1)..(SplitDen + 1))

DefaultSplit == <<SplitDen, 0>>

DefaultKey == <<0, 4000>>

DefaultIncrement == <<1, -1>>

Keys == {DefaultKey, <<100, 200>>}

Increments == {DefaultIncrement, <<2, 3>>, <<-1, 0>>}

InitNumber ==
    /\ \E n \in 0..MaxStack, sp \in SplitStacks, k \in Keys, inc \in Increments :
          call = [fn |-> "number_stack", stack |-> DummyStack(n), splitstack |-> sp,
                  key |-> k, increment |-> inc]
    /\ ret = NoRet
    /\ PlannerIdle
    /\ WriterIdle

CallNumberStack ==
    /\ call.fn = "number_stack"
    /\ ret.status = "none"
    /\ ret' = number_stack(call.stack, call.splitstack, call.key, call.increment)
    /\ UNCHANGED call
    /\ PlannerUnchanged
    /\ WriterUnchanged

SpecNumber == InitNumber /\ [][CallNumberStack]_vars

(***************************************************************************)
(* lamplan2plies                                                           *)
(***************************************************************************)
\* ply_thickness when the slab names none: 1.0 mm
DefaultPlyThickness == 1 * TUnit

\* if material not in material_map: material_map[material] = len(material_map) + 1
Register(map, material) ==
    IF material \in DOMAIN map THEN map
    ELSE map @@ (material :> Cardinality(DOMAIN map) + 1)

\* draping = "plies" if "draping" not in slabs[i] else slabs[i]["draping"]
Draping(slab) == IF Has(slab, "draping") THEN slab.draping ELSE "plies"

PlyThickness(slab) ==
    IF Has(slab, "ply_thickness") THEN slab.ply_thickness ELSE DefaultPlyThickness

RScale(slab) == (IF Has(slab, "rscale") THEN slab.rscale ELSE SpanMm) * RUnit

\* r, t = np.array(slabs[i]["slab"]).T; r *= ...; t *= ply_thickness
SlabR(slab) == [k \in 1..Len(slab.slab) |-> slab.slab[k][1] * RScale(slab)]

SlabT(slab) == [k \in 1..Len(slab.slab) |-> slab.slab[k][2] * PlyThickness(slab)]

\* lines 199-202: the stack after the dispatch; with any other draping the
\* local variable keeps what it held (unbound in the first iteration)
Dispatch(slab, id, old) ==
    IF Draping(slab) = "blocks"
    THEN [bound |-> TRUE, value |-> coreblock(SlabR(slab), SlabT(slab), id).value]
    ELSE IF Draping(slab) = "plies"
    THEN [bound |-> TRUE,
          value |-> ply_stack(SlabR(slab), SlabT(slab), PlyThickness(slab),
                              FALSE, Subdivisions, id)]
    ELSE old

\* lines 206-223: number_stack with the slab's entries or the defaults
NumberSlab(slab, stk) ==
    number_stack(stk,
                 IF Has(slab, "splitstack") THEN slab.splitstack ELSE DefaultSplit,
                 IF Has(slab, "key") THEN slab.key ELSE DefaultKey,
                 IF Has(slab, "increment") THEN slab.increment ELSE DefaultIncrement)

\* one iteration of `for i in slabs`, lines 178-233
ProcessSlab ==
    /\ pc = "loop"
    /\ slab_i < Len(blade)
    /\ LET slab == blade[slab_i + 1]
           map == Register(material_map, slab.material)
           stk == Dispatch(slab, map[slab.material], stack)
       IN  /\ slab_i' = slab_i + 1
           /\ material_map' = map
           /\ stack' = stk
           /\ IF ~stk.bound
              THEN \* NameError: `stack` is read before any assignment
                   /\ pc' = "aborted"
                   /\ UNCHANGED allstacks
              ELSE LET numbering == NumberSlab(slab, stk.value)
                   IN  IF numbering.status = "exit"
                       THEN /\ pc' = "aborted"
                            /\ UNCHANGED allstacks
                       ELSE /\ pc' = "loop"
                            /\ allstacks' = Append(allstacks,
                                   [name |-> slab_i + 1, grid |-> slab.grid,
                                    cover |-> slab.cover,
                                    numbering |-> numbering.value,
                                    stack |-> stk.value])
    /\ UNCHANGED <<call, ret, blade, exported, returned>>
    /\ WriterUnchanged

\* what blade["materials"] can be when export_matdb reads it
MaterialsKinds == {"absent", "missing_file", "file", "inline", "inline_glue"}

\* add_bondline_material: the glue key, when the database names a glue
AddBondline(kind, map) ==
    IF kind = "inline_glue" THEN map @@ ("adhesive" :> -1) ELSE map

\* export_matdb(blade, material_map) and `return allstacks`, lines 234-235.
\* A database file that is not there fails the assert of line 131; a blade
\* without "materials" raises KeyError at line 151; both before the map is
\* written.
ExportAndReturn ==
    /\ pc = "loop"
    /\ slab_i = Len(blade)
    /\ \E kind \in MaterialsKinds :
          IF kind \in {"absent", "missing_file"}
          THEN /\ pc' = "aborted"
               /\ UNCHANGED <<exported, returned>>
          ELSE /\ pc' = "done"
               /\ exported' =
                     [written |-> TRUE,
                      map |-> AddBondline(kind,
                                material_map @@
                                ("matdb" :> IF kind = "file" THEN "materials.yml"
                                            ELSE "__matdb.yml"))]
               /\ returned' = TRUE
    /\ UNCHANGED <<call, ret, blade, slab_i, material_map, stack, allstacks>>
    /\ WriterUnchanged

\* r-t curves of slabs (relative radius steps, thickness in plies): a ramp,
\* a flat, a rise and fall, and a flat that runs out
Ramp == <<<<0, 0>>, <<4, 3>>>>

Flat == <<<<0, 2>>, <<4, 2>>>>

RiseAndFall == <<<<0, 0>>, <<2, 3>>, <<4, 1>>>>

RunOut == <<<<0, 1>>, <<1, 1>>, <<4, 0>>>>

\* how a slab splits and keys its numbering: the defaults, an even split with
\* its own keys and increments, and fractions that do not sum to 1
DefaultNumbering ==
    [has |-> {}, splitstack |-> DefaultSplit, key |-> DefaultKey,
     increment |-> DefaultIncrement]

EvenSplit ==
    [has |-> {"splitstack", "key", "increment"}, splitstack |-> <<SplitDen \div 2, SplitDen \div 2>>,
     key |-> <<100, 200>>, increment |-> <<2, -1>>]

BadSplitNumbering ==
    [has |-> {"splitstack"}, splitstack |-> <<SplitDen - 1, 0>>, key |-> DefaultKey,
     increment |-> DefaultIncrement]

MakeSlab(has, material, draping, ply_thickness, rscale, curve, nb) ==
    [grid |-> "shell", cover |-> "all", has |-> has \cup nb.has,
     material |-> material, draping |-> draping, ply_thickness |-> ply_thickness,
     rscale |-> rscale, slab |-> curve, splitstack |-> nb.splitstack,
     key |-> nb.key, increment |-> nb.increment]

Slabs ==
    {MakeSlab({"draping"}, "glass", "plies", DefaultPlyThickness, SpanMm, c, nb) :
        c \in {Ramp, RiseAndFall}, nb \in {DefaultNumbering, EvenSplit, BadSplitNumbering}}
    \cup
    {MakeSlab({"draping", "ply_thickness"}, "core", "blocks", 2 * TUnit, SpanMm, c, nb) :
        c \in {Flat, RiseAndFall}, nb \in {DefaultNumbering, EvenSplit}}
    \cup
    {MakeSlab({"rscale"}, "glass", "plies", DefaultPlyThickness, RScaleMm, RunOut,
              DefaultNumbering),
     MakeSlab({"draping"}, "core", "ply", DefaultPlyThickness, SpanMm, Ramp,
              DefaultNumbering)}

Blades == UNION {[1..n -> Slabs] : n \in 1..MaxSlabs}

Init ==
    /\ call = NoCall
    /\ ret = NoRet
    /\ blade \in Blades
    /\ pc = "loop"
    /\ slab_i = 0
    /\ material_map = <<>>
    /\ stack = Unbound
    /\ allstacks = <<>>
    /\ exported = NotExported
    /\ returned = FALSE
    /\ WriterIdle

Next == ProcessSlab \/ ExportAndReturn

Spec == Init /\ [][Next]_vars

(***************************************************************************)
(* Direct calls of ply_stack and coreblock on curves with strictly         *)
(* ascending radii (the curves np.interp is defined on).                   *)
(***************************************************************************)
\* radii in millimetres between which every resampling station lies on the
\* 10 mm grid
DrapeRadiiMm == {0, 10 * RUnit, 30 * RUnit}

\* the curve as it is, and 5 mm further out: every station half-way between
\* two grid lines
OffsetsMm == {0, 5}

StrictlyAscending(n) ==
    {[i \in 1..n |-> (r[i] + off) * RUnit] :
        r \in {q \in [1..n -> DrapeRadiiMm] : \A i \in 1..(n - 1) : q[i] < q[i + 1]},
        off \in OffsetsMm}

\* Scenario A of the specification: r = [0, 1] m, t = [0, 5] mm,
\* ply_thickness = 1 mm
ScenarioA ==
    [fn |-> "ply_stack", r |-> <<0, 1000 * RUnit>>, t |-> <<0, 5 * TUnit>>,
     t_ply |-> 1 * TUnit, reverse |-> FALSE, material |-> 11]

InitDrape ==
    /\ \/ call = ScenarioA
       \/ \E n \in 2..MaxPts :
             \E r \in StrictlyAscending(n), t \in Thicknesses(n),
                p \in PlyThicknesses, rev \in BOOLEAN :
                 call = [fn |-> "ply_stack", r |-> r, t |-> t, t_ply |-> p,
                         reverse |-> rev, material |-> 11]
       \/ \E n \in 2..MaxPts :
             \E r \in StrictlyAscending(n), t \in [1..n -> {2 * k : k \in 0..2}] :
                 call = [fn |-> "coreblock", r |-> r, t |-> t, material |-> 11]
    /\ ret = NoRet
    /\ PlannerIdle
    /\ WriterIdle

CallPlyStack ==
    /\ call.fn = "ply_stack"
    /\ ret.status = "none"
    /\ ret' = [status |-> "ok",
               value |-> ply_stack(call.r, call.t, call.t_ply, call.reverse,
                                   Subdivisions, call.material)]
    /\ UNCHANGED call
    /\ PlannerUnchanged
    /\ WriterUnchanged

NextDrape == CallPlyStack \/ CallCoreblock

SpecDrape == InitDrape /\ [][NextDrape]_vars

(***************************************************************************)
(* Direct calls of material_db_to_ccx.                                     *)
(***************************************************************************)
\* a 6x6 stiffness matrix whose entries all differ
MatrixC == [ab \in (0..5) \X (0..5) |-> 10 * (ab[1] + 1) + ab[2] + 1]

NineConstants == <<31, 32, 33, 21, 22, 23, 11, 12, 13>>

Entry(has, nu) ==
    [name |-> "m", has |-> has, nu |-> nu, nu12 |-> 28000, E |-> 70, tEx |-> 30,
     C |-> IF "C" \in has THEN MatrixC ELSE <<>>,
     e |-> IF "e11" \in has THEN NineConstants ELSE <<>>]

\* Poisson ratios below, inside and above [0.1, 0.45], one with five digits
Nus == {-5000, 5000, 12346, 30000, 50000}

Entries ==
    {Entry({"E", "nu"}, nu) : nu \in Nus}
    \cup
    {Entry(has, 30000) :
        has \in {{"tEx", "nu12"}, {"e11"}, {"e11", "E", "nu"}, {"C"},
                 {"C", "E", "nu"}, {"vf", "C", "E", "nu"}, {"vf", "E", "nu"}}}

\* the material map read back: id -> name
MapInv == (1 :> "glass") @@ (2 :> "core")

MaterialDbs == [{"glass", "core"} -> Entries]

\* np.unique(plydat[:, :, 0]): ascending ids; -1 and 0 mark glue and no
\* material, 3 is an id the map does not hold
MaterialLists ==
    {<<>>, <<1>>, <<2>>, <<1, 2>>, <<-1, 0, 1>>, <<0, 1, 2>>, <<-1, 0, 1, 2>>,
     <<1, 3>>, <<-1, 0>>}

InitMaterial ==
    /\ \/ \E ms \in MaterialLists, db \in MaterialDbs, f \in BOOLEAN :
             call = [fn |-> "material_db_to_ccx", materials |-> ms, files |-> "ok",
                     mat_db |-> db, force_iso |-> f]
       \/ \E fl \in {"no_map", "no_link", "no_db"} :
             call = [fn |-> "material_db_to_ccx", materials |-> <<1>>, files |-> fl,
                     mat_db |-> [n \in {"glass", "core"} |-> Entry({"E", "nu"}, 30000)],
                     force_iso |-> FALSE]
    /\ ret = NoRet
    /\ PlannerIdle
    /\ WriterIdle

CallMaterialDb ==
    /\ call.fn = "material_db_to_ccx"
    /\ ret.status = "none"
    /\ ret' = material_db_to_ccx(call.materials, call.files, MapInv, call.mat_db,
                                 call.force_iso)
    /\ UNCHANGED call
    /\ PlannerUnchanged
    /\ WriterUnchanged

SpecMaterial == InitMaterial /\ [][CallMaterialDb]_vars

(***************************************************************************)
(* Properties of plyify.                                                   *)
(***************************************************************************)
PlyifyReturned == call.fn = "plyify" /\ ret.status = "ok"

\* C2: the number of entries plyify returns equals
\* floor(max(t) / ply_thickness): thickness is rounded down.
C2_CountIsFloorOfMax ==
    PlyifyReturned => Len(ret.value) = SeqMax(call.t) \div call.ply_thickness

\* C3: every entry plyify returns has both radii on the 10 mm grid and
\* start <= end after rounding, however the ply was closed.
C3_OnGridAndOrdered ==
    PlyifyReturned =>
        \A k \in 1..Len(ret.value) :
            /\ ret.value[k][1] % Grid = 0
            /\ ret.value[k][2] % Grid = 0
            /\ ret.value[k][1] <= ret.value[k][2]

\* a curve with off-grid radii that falls (plies closed during the scan) and
\* is still above zero at the final radius (plies closed at the end)
C3_Witness ==
    /\ PlyifyReturned
    /\ \E i \in 1..Len(call.r) : call.r[i] % Grid # 0
    /\ call.t[Len(call.t)] > 0
    /\ call.t[Len(call.t)] + call.ply_thickness <= SeqMax(call.t)
    /\ Len(ret.value) >= 2
    /\ \E k \in 1..Len(ret.value) : ret.value[k][1] < ret.value[k][2]

(***************************************************************************)
(* Properties of ply_stack and coreblock.                                  *)
(***************************************************************************)
PlyStackReturned == call.fn = "ply_stack" /\ ret.status = "ok"

CoreblockReturned == call.fn = "coreblock" /\ ret.status = "ok"

\* the stations the curve of the call is resampled at
Stations == Linspace(SeqMin(call.r), SeqMax(call.r), Subdivisions)

\* the summed thickness of the entries whose [r_min, r_max] covers station s
RECURSIVE CoverSum(_, _)
CoverSum(entries, s) ==
    IF Len(entries) = 0 THEN 0
    ELSE (IF entries[1][3] <= s /\ s <= entries[1][4] THEN entries[1][2] ELSE 0)
         + CoverSum(Tail(entries), s)

\* the summed thickness of the entries with r_min <= s < r_max
RECURSIVE CoverSumHalfOpen(_, _)
CoverSumHalfOpen(entries, s) ==
    IF Len(entries) = 0 THEN 0
    ELSE (IF entries[1][3] <= s /\ s < entries[1][4] THEN entries[1][2] ELSE 0)
         + CoverSumHalfOpen(Tail(entries), s)

Abs(a) == IF a < 0 THEN -a ELSE a

\* C4 as the specification states it: at every station the thicknesses of
\* the entries covering it sum to the interpolated thickness of the slab.
C4_RoundTripExact ==
    (PlyStackReturned \/ CoreblockReturned) =>
        LET den == SlopeDen(call.r, 1)
        IN  \A k \in 1..Subdivisions :
                den * CoverSum(ret.value, Stations[k])
                    = Interp(Stations[k], call.r, call.t, den)

StationsOnGrid == \A k \in 1..Subdivisions : Stations[k] % Grid = 0

\* C4, amended.  Plies draping, stations on the 10 mm grid: at every station
\* but the last the entries with r_min <= station < r_max sum to a whole
\* number of plies that differs from the interpolated thickness by less than
\* one ply thickness, and equals it where that is a whole number of plies.
\* Blocks draping: strictly inside a segment the covering entries sum to the
\* mean of the segment's end thicknesses.
C4_RoundTripWithinOnePly ==
    /\ (PlyStackReturned /\ StationsOnGrid) =>
          LET den == SlopeDen(call.r, 1)
          IN  \A k \in 1..(Subdivisions - 1) :
                LET sum == den * CoverSumHalfOpen(ret.value, Stations[k])
                    y == Interp(Stations[k], call.r, call.t, den)
                IN  /\ sum % (den * call.t_ply) = 0
                    /\ Abs(sum - y) < den * call.t_ply
                    /\ (y % (den * call.t_ply) = 0 => sum = y)
    /\ CoreblockReturned =>
          \A i \in 1..(Len(call.r) - 1) :
              2 * CoverSum(ret.value, call.r[i] + 1) = call.t[i] + call.t[i + 1]

\* a curve that rises and falls, resampled on the grid, with a station where
\* the thickness is no whole number of plies
C4_Witness ==
    /\ PlyStackReturned
    /\ StationsOnGrid
    /\ Len(call.r) = 3
    /\ call.t[2] > call.t[1]
    /\ call.t[2] >= call.t[3] + 2 * call.t_ply
    /\ Len(ret.value) >= 2
    /\ \E k \in 1..(Subdivisions - 1) :
          LET den == SlopeDen(call.r, 1)
          IN  /\ Interp(Stations[k], call.r, call.t, den) % (den * call.t_ply) # 0
              /\ den * CoverSumHalfOpen(ret.value, Stations[k])
                    # Interp(Stations[k], call.r, call.t, den)

\* a linear ramp from 0 to n plies over [r0, r1]
IsRamp ==
    /\ call.fn = "ply_stack"
    /\ Len(call.r) = 2
    /\ call.t[1] = 0
    /\ call.t[2] > 0
    /\ call.t[2] % call.t_ply = 0

RampPlies == call.t[2] \div call.t_ply

RampStation(k) ==
    call.r[1] + ((k * (Subdivisions - 1)) \div RampPlies + 1)
                    * ((call.r[2] - call.r[1]) \div (Subdivisions - 1))

Segment(i) ==
    <<call.material,
      IF call.t[i] = call.t[i + 1] THEN call.t[i]
      ELSE (call.t[i] + call.t[i + 1]) \div 2,
      call.r[i], call.r[i + 1]>>

Positive(seg) == seg[2] > 0

\* C6: coreblock returns, in input order, one segment
\* [material, tt, r[i], r[i+1]] for each consecutive pair with tt > 0, tt
\* being the common thickness or the mean; so no thickness <= 0, at most
\* len(r) - 1 segments, and Scenario B gives [m, 1.0, 0, 1], [m, 2.0, 1, 2].
C6_CoreblockSegments ==
    CoreblockReturned =>
        /\ ret.value = SelectSeq([i \in 1..(Len(call.r) - 1) |-> Segment(i)], Positive)
        /\ \A k \in 1..Len(ret.value) : ret.value[k][2] > 0
        /\ Len(ret.value) <= Len(call.r) - 1
        /\ call = ScenarioB =>
              ret.value = <<<<11, 1 * TUnit, 0, 1000 * RUnit>>,
                            <<11, 2 * TUnit, 1000 * RUnit, 2000 * RUnit>>>>

\* a curve with a segment that is averaged and one that is dropped
C6_Witness ==
    /\ CoreblockReturned
    /\ Len(call.r) = 3
    /\ call.t[1] # call.t[2]
    /\ call.t[1] + call.t[2] > 0
    /\ call.t[2] + call.t[3] <= 0
    /\ Len(ret.value) = 1

(***************************************************************************)
(* Properties of number_stack.                                             *)
(***************************************************************************)
NumberReturned == call.fn = "number_stack" /\ ret.status = "ok"

\* the lengths of the two id sequences
Count0 == Max(SplitCounts(Len(call.stack), call.splitstack)[1], 0)

Count1 == Max(SplitCounts(Len(call.stack), call.splitstack)[2], 0)

\* the id at position p (from 0) of the one-for-one interleaving
InterleavedId(p) ==
    LET both == Min(Count0, Count1)
    IN  IF p < 2 * both
        THEN IF p % 2 = 0 THEN call.key[1] + (p \div 2) * call.increment[1]
             ELSE call.key[2] + (p \div 2) * call.increment[2]
        ELSE IF Count0 > Count1
        THEN call.key[1] + (p - both) * call.increment[1]
        ELSE call.key[2] + (p - both) * call.increment[2]

\* C7: the result alternates between the two arithmetic sequences while both
\* have elements left, then continues with the longer one; with the default
\* arguments it is [0, 1, ..., len(stack) - 1].
C7_Interleaving ==
    NumberReturned =>
        /\ Len(ret.value) = Count0 + Count1
        /\ \A j \in 1..Len(ret.value) : ret.value[j] = InterleavedId(j - 1)
        /\ (/\ call.splitstack = DefaultSplit
            /\ call.key = DefaultKey
            /\ call.increment = DefaultIncrement)
              => ret.value = [j \in 1..Len(call.stack) |-> j - 1]

\* both sequences have elements and one outlasts the other by two or more
C7_Witness ==
    /\ NumberReturned
    /\ Count1 >= 1
    /\ Count0 >= Count1 + 2
    /\ call.increment[2] # call.increment[1]

(***************************************************************************)
(* Properties of lamplan2plies.                                            *)
(***************************************************************************)
\* C1: every plan entry has as many ids as its stack has entries.
C1_NumberingMatchesStack ==
    \A k \in 1..Len(allstacks) :
        Len(allstacks[k].numbering) = Len(allstacks[k].stack)

SplitOf(slab) == IF Has(slab, "splitstack") THEN slab.splitstack ELSE DefaultSplit

BadSplit(slab) == SplitOf(slab)[1] + SplitOf(slab)[2] # SplitDen

\* C8: once the loop has taken up a slab whose fractions do not sum to 1,
\* the run is aborted at that slab: nothing was recorded for it, no plan is
\* returned and no material map is written.
C8_BadSplitAborts ==
    \A k \in 1..slab_i :
        BadSplit(blade[k]) =>
            /\ pc = "aborted"
            /\ slab_i = k
            /\ Len(allstacks) < k
            /\ ~returned
            /\ ~exported.written

\* the second slab aborts the run after the first was planned
C8_Witness ==
    /\ pc = "aborted"
    /\ slab_i = 2
    /\ BadSplit(blade[2])
    /\ stack.bound
    /\ Len(allstacks) = 1
    /\ Len(allstacks[1].stack) >= 1

(***************************************************************************)
(* Properties of material_db_to_ccx.                                       *)
(***************************************************************************)
MaterialCalled == call.fn = "material_db_to_ccx" /\ ret.status # "none"

\* the ids above the threshold, in the order of the call
CardIds == SelectSeq(call.materials, LAMBDA i : i > 0)

PropsOf(i) == call.mat_db[MapInv[i]]

\* the constitutive model C9 names for an entry
ClaimedType(props, force_iso) ==
    IF force_iso THEN "iso"
    ELSE IF Has(props, "C") THEN "ortho"
    ELSE IF Has(props, "e11") THEN "engineering constants"
    ELSE "iso"

\* every id of the call is in the map and its entry holds E and nu, so an
\* isotropic card can be written for it
AllResolvable ==
    /\ call.files = "ok"
    /\ \A k \in 1..Len(CardIds) :
          /\ CardIds[k] \in DOMAIN MapInv
          /\ Has(PropsOf(CardIds[k]), "E")
          /\ Has(PropsOf(CardIds[k]), "nu")

\* C9: one card per id above the threshold; isotropic whenever force_iso is
\* set, else orthotropic if C is present, else engineering constants if
\* e11.. are present, else isotropic.
C9_OneCardByPriority ==
    (MaterialCalled /\ AllResolvable) =>
        /\ ret.status = "ok"
        /\ Len(ret.value) = Len(CardIds)
        /\ \A k \in 1..Len(CardIds) :
              /\ ret.value[k].material = CardIds[k]
              /\ ret.value[k].type = ClaimedType(PropsOf(CardIds[k]), call.force_iso)

IsoOnly(props) == props.has = {"E", "nu"}

\* C10: a material with only isotropic properties gets exactly one card, of
\* type iso, whose Poisson ratio is the entry's clamped into [0.1, 0.45]
\* (written with four significant digits); no value of nu is an error.
C10_IsoCardClamped ==
    /\ (MaterialCalled /\ ret.status = "ok") =>
          \A i \in 1..Len(CardIds) :
              IsoOnly(PropsOf(CardIds[i])) =>
                  /\ Cardinality({k \in 1..Len(ret.value) :
                                    ret.value[k].material = CardIds[i]}) = 1
                  /\ \A k \in 1..Len(ret.value) :
                        ret.value[k].material = CardIds[i] =>
                            /\ ret.value[k].type = "iso"
                            /\ ret.value[k].values[2]
                                  = Fmt4g(Min(NuHi, Max(NuLo, PropsOf(CardIds[i]).nu)))
                            /\ ret.value[k].values[2] >= NuLo
                            /\ ret.value[k].values[2] <= NuHi
    /\ (/\ MaterialCalled
        /\ call.files = "ok"
        /\ \A k \in 1..Len(CardIds) :
              CardIds[k] \in DOMAIN MapInv /\ IsoOnly(PropsOf(CardIds[k])))
          => ret.status = "ok"

\* two isotropic materials, one with nu below 0.1 and one with nu above 0.45
C10_Witness ==
    /\ MaterialCalled
    /\ ret.status = "ok"
    /\ Len(ret.value) = 2
    /\ IsoOnly(call.mat_db["glass"]) /\ call.mat_db["glass"].nu < NuLo
    /\ IsoOnly(call.mat_db["core"]) /\ call.mat_db["core"].nu > NuHi

(***************************************************************************)
(* The order of the list plyify returns.                                   *)
(***************************************************************************)
\* the length a ply runs over, after rounding
PlyLength(e) == e[2] - e[1]

\* C14: with reverse false the list plyify returns has the longest-running
\* plies first (end - start never increases along the list), for curves that
\* return to zero thickness and for curves with plies still open at the
\* final radius.
C14_LongestFirst ==
    (PlyifyReturned /\ ~call.reverse) =>
        \A k \in 1..(Len(ret.value) - 1) :
            PlyLength(ret.value[k]) >= PlyLength(ret.value[k + 1])

(***************************************************************************)
(* The orthotropic card.                                                   *)
(***************************************************************************)
\* the nine constants C15 names, of the database matrix C
ClaimedOrthoConstants(C) ==
    <<Fmt4g(Mega * C[<<0, 0>>]), Fmt4g(Mega * C[<<0, 1>>]), Fmt4g(Mega * C[<<1, 1>>]),
      Fmt4g(Mega * C[<<0, 2>>]), Fmt4g(Mega * C[<<1, 2>>]), Fmt4g(Mega * C[<<2, 2>>]),
      Fmt4g(Mega * C[<<5, 5>>]), Fmt4g(Mega * C[<<4, 4>>]), Fmt4g(Mega * C[<<3, 3>>])>>

\* C15: the orthotropic card holds 1e6 times C[0,0], C[0,1], C[1,1], C[0,2],
\* C[1,2], C[2,2], C[5,5], C[4,4], C[3,3] of the database matrix.
C15_OrthoCardRemapped ==
    (MaterialCalled /\ ret.status = "ok") =>
        \A k \in 1..Len(ret.value) :
            ret.value[k].type = "ortho" =>
                ret.value[k].values
                    = ClaimedOrthoConstants(PropsOf(ret.value[k].material).C)

(***************************************************************************)
(* What a plan entry is computed from.                                     *)
(***************************************************************************)
\* C17: the stack recorded for a slab is computed from that slab alone: every
\* stack entry carries the registry id of the slab's material, and a slab
\* whose draping is neither "plies" nor "blocks" has no plan entry holding
\* the stack of an earlier slab.
C17_PlanFromOwnSlab ==
    \A k \in 1..Len(allstacks) :
        LET slab == blade[allstacks[k].name]
        IN  /\ Draping(slab) \in {"plies", "blocks"}
            /\ \A j \in 1..Len(allstacks[k].stack) :
                  allstacks[k].stack[j][1] = material_map[slab.material]

(***************************************************************************)
(* make_shell_section                                                      *)
(*                                                                         *)
(* A ply entry of an element is <<material, thickness>> (the columns 0 and *)
(* 1 of plyarray).  Thicknesses are whole numbers of a unit of which       *)
(* MicroDen make one micrometre (0.001 mm); a line of the section holds    *)
(* the thickness in metres written by "%f", that is in whole micrometres.  *)
(***************************************************************************)
\* thickness units per micrometre
MicroDen == 10

\* the most ply entries of one element
MaxLayers == 3

\* plyarray[:, 1] > 1e-6 (millimetres)
Present(j) == 1000 * j[2] > MicroDen

\* "%f" of a thickness in metres: six decimals, whole micrometres
FmtF(t) == RoundHalfEven(t, MicroDen)

\* a mutant of SameAsLast: the material is not compared
SameAsLast_any(plies, j) == Len(plies) > 0

\* plies and plies[-1][1] == j[0]
SameAsLast(plies, j) == Len(plies) > 0 /\ plies[Len(plies)][2] = j[1]

\* lines 19-23: the loop over the present entries; plies holds
\* [thickness, material]
RECURSIVE MergeLoop(_, _, _, _)
MergeLoop(present, merge_adjacent_plies, k, plies) ==
    IF k > Len(present) THEN plies
    ELSE LET j == present[k]
         IN  IF SameAsLast(plies, j) /\ merge_adjacent_plies
             THEN MergeLoop(present, merge_adjacent_plies, k + 1,
                            [plies EXCEPT ![Len(plies)][1] = @ + j[2]])
             ELSE MergeLoop(present, merge_adjacent_plies, k + 1,
                            Append(plies, <<j[2], j[1]>>))

\* lines 25-28: "%f,,m%i,0" or "%f,,m%i,or%i" with elem_id + 1
SectionLine(ply, elem_id, zero_angle) ==
    [thickness |-> FmtF(ply[1]), material |-> ply[2],
     orientation |-> IF zero_angle THEN 0 ELSE elem_id + 1]

make_shell_section(elem_id, plyarray, merge_adjacent_plies, zero_angle) ==
    LET plies == MergeLoop(SelectSeq(plyarray, Present), merge_adjacent_plies, 1, <<>>)
    IN  [k \in 1..Len(plies) |-> SectionLine(plies[k], elem_id, zero_angle)]

\* ply thicknesses: none, 0.4, 1 and 1.6 micrometres and 0.8124 mm when
\* MicroDen is 10; even numbers, so that no sum lies half-way between two
\* micrometres
LayerThicknesses == {0, 4, 10, 16, 8124}

LayerMaterials == {1, 2}

PlyArrays == UNION {[1..n -> LayerMaterials \X LayerThicknesses] : n \in 0..MaxLayers}

InitShell ==
    /\ \E e \in 0..1, pa \in PlyArrays, m \in BOOLEAN, z \in BOOLEAN :
          call = [fn |-> "make_shell_section", elem_id |-> e, plyarray |-> pa,
                  merge_adjacent_plies |-> m, zero_angle |-> z]
    /\ ret = NoRet
    /\ PlannerIdle
    /\ WriterIdle

CallShellSection ==
    /\ call.fn = "make_shell_section"
    /\ ret.status = "none"
    /\ ret' = [status |-> "ok",
               value |-> make_shell_section(call.elem_id, call.plyarray,
                                            call.merge_adjacent_plies,
                                            call.zero_angle)]
    /\ UNCHANGED call
    /\ PlannerUnchanged
    /\ WriterUnchanged

SpecShell == InitShell /\ [][CallShellSection]_vars

(***************************************************************************)
(* Properties of make_shell_section.                                       *)
(***************************************************************************)
ShellReturned == call.fn = "make_shell_section" /\ ret.status = "ok"

\* the present entries of the call, in stack order
PresentPlies == SelectSeq(call.plyarray, Present)

\* the positions among the present entries at which a run of one material
\* begins
RunStarts ==
    {i \in 1..Len(PresentPlies) :
        i = 1 \/ PresentPlies[i][1] # PresentPlies[i - 1][1]}

\* where the k-th run begins and ends
RunFirst(k) ==
    CHOOSE i \in RunStarts : Cardinality({j \in RunStarts : j <= i}) = k

RunLast(k) ==
    IF k = Cardinality(RunStarts) THEN Len(PresentPlies) ELSE RunFirst(k + 1) - 1

RECURSIVE SumThickness(_, _, _)
SumThickness(entries, a, b) ==
    IF a > b THEN 0 ELSE entries[a][2] + SumThickness(entries, a + 1, b)

RECURSIVE SumLines(_)
SumLines(lines) ==
    IF Len(lines) = 0 THEN 0 ELSE lines[1].thickness + SumLines(Tail(lines))

\* what C16 says of the lines but for their thicknesses: one line per maximal
\* run in stack order when merging, one per present ply otherwise
LinesAreRuns ==
    IF call.merge_adjacent_plies
    THEN /\ Len(ret.value) = Cardinality(RunStarts)
         /\ \A k \in 1..Len(ret.value) :
               ret.value[k].material = PresentPlies[RunFirst(k)][1]
         /\ \A k \in 1..(Len(ret.value) - 1) :
               ret.value[k].material # ret.value[k + 1].material
    ELSE /\ Len(ret.value) = Len(PresentPlies)
         /\ \A k \in 1..Len(ret.value) :
               ret.value[k].material = PresentPlies[k][1]

\* the summed thickness behind line k
LineSum(k) ==
    IF call.merge_adjacent_plies
    THEN SumThickness(PresentPlies, RunFirst(k), RunLast(k))
    ELSE PresentPlies[k][2]

\* C16 as the specification states it: each line's thickness is the run's
\* summed thickness times 1e-3, and the emitted thicknesses total the input
\* thickness of the present plies.
C16_RunsExact ==
    ShellReturned =>
        /\ LinesAreRuns
        /\ \A k \in 1..Len(ret.value) :
              MicroDen * ret.value[k].thickness = LineSum(k)
        /\ MicroDen * SumLines(ret.value)
              = SumThickness(PresentPlies, 1, Len(PresentPlies))

\* C16, amended: the lines are the maximal runs (the present plies when not
\* merging); each line's thickness is the run's summed thickness times 1e-3
\* written with six decimals, so the emitted total is within half a
\* micrometre per line of the input total, and equal to it when every line's
\* sum is a whole number of micrometres.
C16_RunsRounded ==
    ShellReturned =>
        /\ LinesAreRuns
        /\ \A k \in 1..Len(ret.value) :
              ret.value[k].thickness = FmtF(LineSum(k))
        /\ 2 * Abs(MicroDen * SumLines(ret.value)
                     - SumThickness(PresentPlies, 1, Len(PresentPlies)))
              <= MicroDen * Len(ret.value)
        /\ (\A k \in 1..Len(ret.value) : LineSum(k) % MicroDen = 0)
              => MicroDen * SumLines(ret.value)
                    = SumThickness(PresentPlies, 1, Len(PresentPlies))

\* merging: an absent ply lies between two plies of one material, which are
\* merged, and a ply of another material follows
C16_Witness ==
    /\ ShellReturned
    /\ call.merge_adjacent_plies
    /\ Len(call.plyarray) = 3
    /\ ~Present(call.plyarray[2])
    /\ Present(call.plyarray[1]) /\ Present(call.plyarray[3])
    /\ call.plyarray[1][1] = call.plyarray[3][1]
    /\ Len(ret.value) = 1
    /\ ret.value[1].thickness > 0

(***************************************************************************)
(* get_loadcases                                                           *)
(*                                                                         *)
(* mesh.point_data is a sequence of fields [name, data], data holding one  *)
(* force vector <<x, y, z>> per node.  Forces are whole numbers of 1e-6,   *)
(* the resolution "%f" writes.                                             *)
(***************************************************************************)
\* the most nodes of a mesh
MaxNodes == 2

\* field names i with i.startswith("lc_")
LcNames == {"lc_flap", "lc_edge"}

StartsWithLc(name) == name \in LcNames

\* j ** 2 > 1e-8, j in units of 1e-6
OverThreshold(j) == j * j > 10000

\* lines 249-253: the lines of node n (from 0) with force vector j
NodeLines(n, j) ==
    (IF OverThreshold(j[1]) THEN <<<<n + 1, 1, j[1]>>>> ELSE <<>>)
    \o (IF OverThreshold(j[2]) THEN <<<<n + 1, 2, j[2]>>>> ELSE <<>>)

RECURSIVE CloadLines(_, _)
CloadLines(ld, n) ==
    IF n >= Len(ld) THEN <<>>
    ELSE NodeLines(n, ld[n + 1]) \o CloadLines(ld, n + 1)

\* lines 246-255: the step block of one field; the multiplier is set to 1.0
\* whatever was passed
StepBlock(field, multiplier) ==
    LET m == 1
        ld == [n \in 1..Len(field.data) |->
                  [c \in 1..3 |-> field.data[n][c] * m]]
    IN  [name |-> field.name, cload |-> CloadLines(ld, 0), output |-> TRUE]

\* loadcases, in the order of the dict: one block per field named lc_...
RECURSIVE get_loadcases(_, _)
get_loadcases(point_data, multiplier) ==
    IF Len(point_data) = 0 THEN <<>>
    ELSE (IF StartsWithLc(point_data[1].name)
          THEN <<StepBlock(point_data[1], multiplier)>> ELSE <<>>)
         \o get_loadcases(Tail(point_data), multiplier)

\* force vectors: nothing, components at and just over the threshold, of
\* either sign, in every direction
ForceVectors ==
    {<<0, 0, 0>>, <<150, 0, 0>>, <<0, -150, 100>>, <<100, 150, -150>>, <<0, 0, 150>>}

\* the names of the point-data fields of a mesh, in order; "lc" and
\* "thickness" do not start with lc_
FieldLists ==
    {<<>>, <<"thickness">>, <<"lc_flap">>, <<"lc", "lc_edge">>,
     <<"lc_flap", "thickness", "lc_edge">>, <<"lc_edge", "lc_flap">>}

NoForces(n) == [k \in 1..n |-> <<0, 0, 0>>]

\* the point data of a mesh of n nodes with the fields named, the lc_ fields
\* holding the forces flap and edge
PointData(names, n, flap, edge) ==
    [k \in 1..Len(names) |->
        [name |-> names[k],
         data |-> IF names[k] = "lc_flap" THEN flap
                  ELSE IF names[k] = "lc_edge" THEN edge
                  ELSE NoForces(n)]]

InitLoadcases ==
    /\ \E names \in FieldLists, n \in 1..MaxNodes, mult \in 1..2 :
          \E flap \in [1..n -> ForceVectors], edge \in [1..n -> ForceVectors] :
              /\ ("lc_flap" \in {names[k] : k \in 1..Len(names)} \/ flap = NoForces(n))
              /\ ("lc_edge" \in {names[k] : k \in 1..Len(names)} \/ edge = NoForces(n))
              /\ call = [fn |-> "get_loadcases",
                         point_data |-> PointData(names, n, flap, edge),
                         multiplier |-> mult]
    /\ ret = NoRet
    /\ PlannerIdle
    /\ WriterIdle

CallGetLoadcases ==
    /\ call.fn = "get_loadcases"
    /\ ret.status = "none"
    /\ ret' = [status |-> "ok",
               value |-> get_loadcases(call.point_data, call.multiplier)]
    /\ UNCHANGED call
    /\ PlannerUnchanged
    /\ WriterUnchanged

SpecLoadcases == InitLoadcases /\ [][CallGetLoadcases]_vars

(***************************************************************************)
(* Properties of get_loadcases.                                            *)
(***************************************************************************)
LoadcasesReturned == call.fn = "get_loadcases" /\ ret.status = "ok"

\* the lc_ fields of the call, in order
LcFields == SelectSeq(call.point_data, LAMBDA f : StartsWithLc(f.name))

\* C13: one step block per field named lc_..., in which, for every node and
\* every component x, y and z of its force vector, a line for that node and
\* degree of freedom is present if and only if the component's square
\* exceeds 1e-8; the value is the stored component, unscaled whatever
\* multiplier is passed; the block ends with the output-request cards.
C13_ForceLines ==
    LoadcasesReturned =>
        /\ Len(ret.value) = Len(LcFields)
        /\ \A b \in 1..Len(ret.value) :
              /\ ret.value[b].name = LcFields[b].name
              /\ ret.value[b].output
              /\ \A n \in 1..Len(LcFields[b].data), c \in 1..3 :
                    LET lines == {k \in 1..Len(ret.value[b].cload) :
                                     /\ ret.value[b].cload[k][1] = n
                                     /\ ret.value[b].cload[k][2] = c}
                    IN  IF OverThreshold(LcFields[b].data[n][c])
                        THEN /\ Cardinality(lines) = 1
                             /\ \A k \in lines :
                                   ret.value[b].cload[k][3] = LcFields[b].data[n][c]
                        ELSE lines = {}

(***************************************************************************)
(* mesh2ccx                                                                *)
(*                                                                         *)
(* call.mesh is the mesh of line 304/306: points, cells (connectivity),    *)
(* plies (the cell data named ply_..., per cell <<material, thickness>>),  *)
(* slabs (the cell data named slab_thickness_...) and point_data.  The     *)
(* buffer and the decks are sequences of blocks.                           *)
(***************************************************************************)
\* the element numbers (from 1) of the cells whose value is positive
PositiveCells(values) == {n \in 1..Len(values) : values[n] > 0}

nodebuffer(mesh) == [kind |-> "nodes", points |-> mesh.points]

\* element_buffer_quadratic / element_buffer_linear
element_buffer(mesh, quadratic) ==
    [kind |-> "elements", type |-> IF quadratic THEN "s8r" ELSE "s4",
     conn |-> mesh.cells]

\* "*elset,elset=Eall,GENERATE\n%i,%i\n" % (1, mesh.GetNumberOfCells())
EallSet(mesh) == [kind |-> "eall", first |-> 1, last |-> Len(mesh.cells)]

compute_ply_groups(mesh) ==
    [kind |-> "plysets",
     sets |-> [k \in 1..Len(mesh.plies) |->
                  [name |-> mesh.plies[k].name,
                   eids |-> PositiveCells([n \in 1..Len(mesh.cells) |->
                                              mesh.plies[k].data[n][2]])]]]

compute_slab_groups(mesh) ==
    [kind |-> "slabsets",
     sets |-> [k \in 1..Len(mesh.slabs) |->
                  [name |-> mesh.slabs[k].name,
                   eids |-> PositiveCells(mesh.slabs[k].data)]]]

orientation_buffer(mesh, add_centers) ==
    [kind |-> "orientations", n |-> Len(mesh.cells), centers |-> add_centers]

\* ascending sequence of the members of a set of numbers
RECURSIVE Sorted(_)
Sorted(S) ==
    IF S = {} THEN <<>>
    ELSE LET lo == CHOOSE x \in S : \A y \in S : x <= y
         IN  <<lo>> \o Sorted(S \ {lo})

\* materials = np.unique(plydat[:, :, 0])
UniqueMaterials(mesh) ==
    Sorted({mesh.plies[k].data[n][1] :
               k \in 1..Len(mesh.plies), n \in 1..Len(mesh.cells)})

\* plydat[:, i, :]: the entries of cell i (from 0) in all plies, in order
CellPlies(mesh, i) == [k \in 1..Len(mesh.plies) |-> mesh.plies[k].data[i + 1]]

\* lines 342-356: one shell section per element; its header names an
\* orientation when zeroangle is set
ShellSections(mesh, merge_adjacent_layers, zeroangle) ==
    [kind |-> "sections",
     sections |-> [n \in 1..Len(mesh.cells) |->
                      [elset |-> n, orientation |-> zeroangle,
                       lines |-> make_shell_section(n - 1, CellPlies(mesh, n - 1),
                                                    merge_adjacent_layers, zeroangle)]]]

\* the nodes at the lowest z
root_clamp(mesh) ==
    [kind |-> "boundary",
     nodes |-> {n \in 1..Len(mesh.points) :
                   \A k \in 1..Len(mesh.points) : mesh.points[n][3] <= mesh.points[k][3]}]

\* out.replace(".inp", "_<loadcase>.inp"): out is [stem, inp], inp telling
\* whether the name holds ".inp"
LoadcasePath(out, i) ==
    IF out.inp THEN [stem |-> out.stem, lc |-> i, inp |-> TRUE]
    ELSE [stem |-> out.stem, lc |-> "", inp |-> FALSE]

SinglePath(out) == [stem |-> out.stem, lc |-> "", inp |-> out.inp]

\* a mutant of DeckContent: the loadcase is appended to the buffer itself, so
\* a deck also holds the loadcases written before it
DeckContent_accumulate(common, lcs, k) == common \o SubSeq(lcs, 1, k)

\* output = buf + loadcases[i], for the k-th loadcase
DeckContent(common, lcs, k) == Append(common, lcs[k])

WriterRuns == call.fn = "mesh2ccx"

\* what every step of mesh2ccx leaves alone
RunUnchanged == UNCHANGED <<call, ret>> /\ PlannerUnchanged

\* line 313
NodeBuffer ==
    /\ WriterRuns /\ wpc = "nodes"
    /\ buf' = <<nodebuffer(call.mesh)>>
    /\ wpc' = "elements"
    /\ UNCHANGED <<loadcases, decks>> /\ RunUnchanged

\* lines 315-318
ElementBuffer ==
    /\ WriterRuns /\ wpc = "elements"
    /\ buf' = Append(buf, element_buffer(call.mesh, call.quadratic))
    /\ wpc' = "eall"
    /\ UNCHANGED <<loadcases, decks>> /\ RunUnchanged

\* line 320
GlobalElementSet ==
    /\ WriterRuns /\ wpc = "eall"
    /\ buf' = Append(buf, EallSet(call.mesh))
    /\ wpc' = "plygroups"
    /\ UNCHANGED <<loadcases, decks>> /\ RunUnchanged

\* lines 322-324
PlyGroups ==
    /\ WriterRuns /\ wpc = "plygroups"
    /\ buf' = Append(buf, compute_ply_groups(call.mesh))
    /\ wpc' = "slabgroups"
    /\ UNCHANGED <<loadcases, decks>> /\ RunUnchanged

\* line 326
SlabGroups ==
    /\ WriterRuns /\ wpc = "slabgroups"
    /\ buf' = Append(buf, compute_slab_groups(call.mesh))
    /\ wpc' = "stack"
    /\ UNCHANGED <<loadcases, decks>> /\ RunUnchanged

\* lines 328-332: np.stack raises when the mesh has no ply data at all
StackPlies ==
    /\ WriterRuns /\ wpc = "stack"
    /\ wpc' = IF Len(call.mesh.plies) = 0 THEN "aborted" ELSE "orientations"
    /\ UNCHANGED <<buf, loadcases, decks>> /\ RunUnchanged

\* line 334
OrientationBuffer ==
    /\ WriterRuns /\ wpc = "orientations"
    /\ buf' = Append(buf, orientation_buffer(call.mesh, call.add_centers))
    /\ wpc' = "materials"
    /\ UNCHANGED <<loadcases, decks>> /\ RunUnchanged

\* lines 336-338: exit() or an exception in material_db_to_ccx ends the run
MaterialBlock ==
    /\ WriterRuns /\ wpc = "materials"
    /\ LET matblock == material_db_to_ccx(UniqueMaterials(call.mesh), call.files,
                                          MapInv, call.mat_db, call.force_isotropic)
       IN  IF matblock.status = "ok"
           THEN /\ buf' = Append(buf, [kind |-> "materials", cards |-> matblock.value])
                /\ wpc' = "sections"
           ELSE /\ wpc' = "aborted"
                /\ UNCHANGED buf
    /\ UNCHANGED <<loadcases, decks>> /\ RunUnchanged

\* lines 342-356
ShellSectionBlock ==
    /\ WriterRuns /\ wpc = "sections"
    /\ buf' = Append(buf, ShellSections(call.mesh, call.merge_adjacent_layers,
                                        call.zeroangle))
    /\ wpc' = "clamp"
    /\ UNCHANGED <<loadcases, decks>> /\ RunUnchanged

\* line 357
RootClamp ==
    /\ WriterRuns /\ wpc = "clamp"
    /\ buf' = Append(buf, root_clamp(call.mesh))
    /\ wpc' = "loadcases"
    /\ UNCHANGED <<loadcases, decks>> /\ RunUnchanged

\* line 358; the loop of line 367 has nothing to do without loadcases
GetLoadcases ==
    /\ WriterRuns /\ wpc = "loadcases"
    /\ loadcases' = get_loadcases(call.mesh.point_data, 1)
    /\ wpc' = IF ~call.single_step /\ loadcases' = <<>> THEN "hyperworks" ELSE "write"
    /\ UNCHANGED <<buf, decks>> /\ RunUnchanged

\* lines 361-365: one deck with all loadcases
WriteSingleDeck ==
    /\ WriterRuns /\ wpc = "write" /\ call.single_step
    /\ decks' = Append(decks, [path |-> SinglePath(call.out),
                               content |-> buf \o loadcases])
    /\ wpc' = "hyperworks"
    /\ UNCHANGED <<buf, loadcases>> /\ RunUnchanged

\* lines 367-371: one iteration of `for i in loadcases`
WriteLoadcaseDeck ==
    /\ WriterRuns /\ wpc = "write" /\ ~call.single_step
    /\ Len(decks) < Len(loadcases)
    /\ LET k == Len(decks) + 1
       IN  decks' = Append(decks, [path |-> LoadcasePath(call.out, loadcases[k].name),
                                   content |-> DeckContent(buf, loadcases, k)])
    /\ wpc' = IF Len(decks') = Len(loadcases) THEN "hyperworks" ELSE "write"
    /\ UNCHANGED <<buf, loadcases>> /\ RunUnchanged

\* lines 373-375: `otb` is bound only in the single_step branch
ExportHyperworks ==
    /\ WriterRuns /\ wpc = "hyperworks"
    /\ wpc' = IF call.export_hyperworks /\ ~call.single_step THEN "aborted" ELSE "done"
    /\ UNCHANGED <<buf, loadcases, decks>> /\ RunUnchanged

\* forces of the two loadcases of the meshes below
FlapForces == <<<<150, 0, 0>>, <<0, -150, 100>>, <<0, 0, 0>>>>

EdgeForces == <<<<0, 150, 0>>, <<0, 0, 0>>, <<100, 150, -150>>>>

\* ply data of two cells: a ply on both, a ply of the same material on the
\* first only, a ply of another material on both
TwoCellPlies ==
    <<[name |-> "ply_00000000", data |-> <<<<1, 10>>, <<1, 10>>>>],
      [name |-> "ply_00000001", data |-> <<<<1, 16>>, <<0, 0>>>>],
      [name |-> "ply_00004000", data |-> <<<<2, 8124>>, <<2, 8124>>>>]>>

\* meshes of three nodes (two at the root) and two cells, with and without
\* ply data
Meshes ==
    {[points |-> <<<<0, 0, 0>>, <<1, 0, 0>>, <<0, 0, 5>>>>,
      cells |-> <<<<1, 2, 3>>, <<2, 3, 1>>>>,
      plies |-> pl,
      slabs |-> <<[name |-> "slab_thickness_shell", data |-> <<26, 10>>]>>,
      point_data |-> PointData(names, 3, FlapForces, EdgeForces)] :
        pl \in {<<>>, TwoCellPlies}, names \in FieldLists}

OutNames == {[stem |-> "test", inp |-> TRUE], [stem |-> "deck", inp |-> FALSE]}

\* the material database of a run: glass isotropic, core with a stiffness
\* matrix
DeckMaterialDb ==
    [n \in {"glass", "core"} |->
        IF n = "glass" THEN Entry({"E", "nu"}, 30000) ELSE Entry({"C"}, 30000)]

InitDeck ==
    /\ \E mesh \in Meshes, out \in OutNames,
          fl \in {"ok", "no_map", "no_link", "no_db"},
          flags \in [{"merge", "zero", "single", "quad", "centers", "iso", "hw"}
                        -> BOOLEAN] :
          call = [fn |-> "mesh2ccx", mesh |-> mesh, out |-> out, files |-> fl,
                  mat_db |-> DeckMaterialDb,
                  merge_adjacent_layers |-> flags["merge"],
                  zeroangle |-> flags["zero"], single_step |-> flags["single"],
                  quadratic |-> flags["quad"], add_centers |-> flags["centers"],
                  force_isotropic |-> flags["iso"],
                  export_hyperworks |-> flags["hw"]]
    /\ ret = NoRet
    /\ PlannerIdle
    /\ wpc = "nodes"
    /\ buf = <<>>
    /\ loadcases = <<>>
    /\ decks = <<>>

NextDeck ==
    \/ NodeBuffer \/ ElementBuffer \/ GlobalElementSet \/ PlyGroups \/ SlabGroups
    \/ StackPlies \/ OrientationBuffer \/ MaterialBlock \/ ShellSectionBlock
    \/ RootClamp \/ GetLoadcases \/ WriteSingleDeck \/ WriteLoadcaseDeck
    \/ ExportHyperworks

SpecDeck == InitDeck /\ [][NextDeck]_vars

(***************************************************************************)
(* Properties of mesh2ccx.                                                 *)
(***************************************************************************)
\* the positions of a run up to and including the material resolution
BeforeSections ==
    {"nodes", "elements", "eall", "plygroups", "slabgroups", "stack",
     "orientations", "materials"}

\* C11: without a material map, without its link to a database or without
\* the database, material_db_to_ccx aborts; the run never gets past the
\* material resolution and has written no deck; no deck is ever written
\* before the materials are resolved.
C11_NoDeckWithoutMaterials ==
    WriterRuns =>
        /\ call.files # "ok" =>
              /\ material_db_to_ccx(UniqueMaterials(call.mesh), call.files, MapInv,
                                    call.mat_db, call.force_isotropic).status
                    \in {"exit", "raise"}
              /\ wpc \in BeforeSections \cup {"aborted"}
              /\ decks = <<>>
        /\ decks # <<>> => \E k \in 1..Len(buf) : buf[k].kind = "materials"

\* a run without the link to a database has been aborted at the material
\* resolution, after the orientations were buffered
C11_Witness ==
    /\ WriterRuns
    /\ call.files = "no_link"
    /\ wpc = "aborted"
    /\ Len(buf) = 6
    /\ buf[6].kind = "orientations"

\* the kinds of the common blocks, in the order C12 names
CommonKinds ==
    <<"nodes", "elements", "eall", "plysets", "slabsets", "orientations",
      "materials", "sections", "boundary">>

\* the names of the lc_ fields of the mesh, in order
LoadcaseNames ==
    LET fields == SelectSeq(call.mesh.point_data, LAMBDA f : StartsWithLc(f.name))
    IN  [k \in 1..Len(fields) |-> fields[k].name]

\* the blocks of a deck after the common part
StepBlocks(deck) == SubSeq(deck.content, Len(CommonKinds) + 1, Len(deck.content))

====
